---- MODULE Spec2Model ----
(***************************************************************************)
(* Smart Customer Insight Engine: the synthetic feedback generator         *)
(* (generate_sample_feedback_data of both source files) and the rule-based *)
(* labeler of the ProcessCustomerFeedback procedure.                       *)
(*                                                                         *)
(* Texts are TLA+ strings (sequences of characters); str.replace, UPPER,   *)
(* REGEXP_CONTAINS and the f-string formats are computed on them.          *)
(* Times are whole hours; sentiment scores are tenths (0.8 is 8).          *)
(***************************************************************************)
EXTENDS Integers, Sequences, FiniteSets, TLC

VARIABLES
    impl,               \* which source file's generator runs: "main" or "demo"
    num_samples,        \* the argument of generate_sample_feedback_data
    pc,                 \* position of the call
    i,                  \* the loop variable of `for i in range(num_samples)`
    category,           \* local: the chosen template pool key
    template,           \* local: the chosen template
    channel,            \* local: the chosen channel
    text,               \* local: the text being filled (main file only)
    feedback_data,      \* local: the list of rows; the returned DataFrame
    now,                \* datetime.now(), in hours since the call began
    customer_feedback,  \* table customer_feedback of the warehouse
    feedback_insights,  \* table feedback_insights of the warehouse
    proc_pc,            \* position of a run of ProcessCustomerFeedback
    rng,                \* np.random's global stream: the number of values drawn from it
    suspended,          \* the locals of a second call of the generator, while it does not run
    demo_pc,            \* position of run_complete_demo
    dataset_exists,     \* the warehouse holds the dataset
    created,            \* what create_dataset_and_tables returned
    printed             \* the step headers and error messages printed so far

genVars == <<impl, num_samples, pc, i, category, template, channel, text, feedback_data>>
dbVars == <<customer_feedback, feedback_insights, proc_pc>>
demoVars == <<demo_pc, dataset_exists, created, printed>>
restVars == <<suspended, demo_pc, dataset_exists, created, printed>>
vars == <<impl, num_samples, pc, i, category, template, channel, text, feedback_data,
          now, customer_feedback, feedback_insights, proc_pc,
          rng, suspended, demo_pc, dataset_exists, created, printed>>

(***************************************************************************)
(* Bounds of the model.                                                    *)
(***************************************************************************)
NegCounts == 2          \* counts down to -NegCounts are tried
SmallCounts == 2        \* and up to SmallCounts
MaxCount == 1000        \* and MaxCount - 1, MaxCount (four-digit indices)
MaxFieldSamples == 1    \* batch size where customer and channel draws range fully
MaxTimeSamples == 1     \* batch size where day and hour draws range fully
MaxTextSamples == 1     \* batch size where the text draws range fully
MaxFillSamples == 1     \* batch size where the template and placeholder draws range fully
MaxPairSamples == 2     \* batch sizes of two calls that interleave
MaxWords == 2           \* words of a text handed to the labeler
MaxRows == 2            \* feedback rows where the procedure runs repeatedly
MaxMarkedSamples == 1   \* batch size where the template and marker draws range fully

(***************************************************************************)
(* Strings.                                                                *)
(***************************************************************************)
Last(s) == s[Len(s)]

\* s[from..] as Python slices it
Drop(s, n) == SubSeq(s, n + 1, Len(s))

StartsWith(s, p) == Len(s) >= Len(p) /\ SubSeq(s, 1, Len(p)) = p

\* `k in s` on strings; REGEXP_CONTAINS of a literal
Contains(s, k) == \E p \in 1..(Len(s) - Len(k) + 1) : SubSeq(s, p, p + Len(k) - 1) = k

\* variant: nothing replaced
ReplaceNothing(s, old, new) == s

\* the position of the leftmost occurrence of k in s, 0 when there is none
Find(s, k) ==
    IF Contains(s, k)
    THEN CHOOSE p \in 1..(Len(s) - Len(k) + 1) :
            /\ SubSeq(s, p, p + Len(k) - 1) = k
            /\ \A q \in 1..(p - 1) : SubSeq(s, q, q + Len(k) - 1) # k
    ELSE 0

\* str.replace(old, new), old not empty: the leftmost occurrence is replaced, and
\* so on in the text after it
RECURSIVE Replace(_, _, _)
Replace(s, old, new) ==
    IF Find(s, old) = 0 THEN s
    ELSE SubSeq(s, 1, Find(s, old) - 1) \o new
            \o Replace(Drop(s, Find(s, old) + Len(old) - 1), old, new)

Digits == <<"0", "1", "2", "3", "4", "5", "6", "7", "8", "9">>

\* str(n) for n >= 0
RECURSIVE Decimal(_)
Decimal(n) == IF n < 10 THEN Digits[n + 1] ELSE Decimal(n \div 10) \o Digits[(n % 10) + 1]

RECURSIVE Zeros(_)
Zeros(n) == IF n <= 0 THEN "" ELSE "0" \o Zeros(n - 1)

\* variant: pads to one character less
ZeroPadShort(n, width) == Zeros((width - 1) - Len(Decimal(n))) \o Decimal(n)

\* format(n, '03d') with width 3: at least `width` characters, zero-filled
ZeroPad(n, width) == Zeros(width - Len(Decimal(n))) \o Decimal(n)

(***************************************************************************)
(* numpy.random, as nondeterministic draws.                                *)
(***************************************************************************)
\* variant: the upper end included
randintClosed(low, high) == low..high

\* np.random.randint(low, high): low inclusive, high exclusive
randint(low, high) == low..(high - 1)

\* np.random.choice(seq)
choice(seq) == {seq[k] : k \in DOMAIN seq}

\* np.random.random(), in hundredths: 0.00 .. 0.99
random == 0..99

\* the outcomes of S a specification lets the random source produce
Restrict(S, R) == {x \in S : x \in R}

\* variant: the upper end included
RangeInclusive(n) == 0..n

\* range(n)
Range(n) == 0..(n - 1)

(***************************************************************************)
(* The generator's tables.                                                 *)
(***************************************************************************)
Keys == <<"technical", "billing", "product", "shipping">>

feedback_templates_main ==
    [technical |-> <<
        "The app keeps crashing when I try to {action}. This is really frustrating!",
        "I can't access my {feature} after the latest update. Need help ASAP.",
        "The {feature} is not working properly. Getting error messages constantly.",
        "Very slow performance when {action}. Takes forever to load.",
        "Login issues persist. Can't authenticate properly.">>,
     billing |-> <<
        "I was charged twice for my subscription this month. Please refund immediately.",
        "My billing shows incorrect amounts. Need clarification on charges.",
        "Automatic renewal didn't work. Please update my payment method.",
        "Discount code wasn't applied to my order. Can you fix this?",
        "Subscription cancellation didn't go through. Still being charged.">>,
     product |-> <<
        "Love the new {feature}! Makes everything so much easier.",
        "The {feature} could be improved. Here's my suggestion: {suggestion}",
        "Missing feature: {suggestion}. Would be great to have this.",
        "Great product overall but {feature} needs work.",
        "Excellent customer service and product quality!">>,
     shipping |-> <<
        "My order is late. Expected delivery was {date}. Where is it?",
        "Package arrived damaged. Need replacement urgently.",
        "Wrong item shipped. Ordered {item} but received {wrong_item}.",
        "Fast shipping! Arrived earlier than expected. Very pleased.",
        "Tracking information isn't updating. Is my package lost?">>]

feedback_templates_demo ==
    [technical |-> <<
        "The app keeps crashing when I try to upload files. This is really frustrating!",
        "I can't access my dashboard after the latest update. Need help ASAP.",
        "Very slow performance when exporting reports. Takes forever to load.",
        "Login issues persist. Can't authenticate properly.",
        "Getting error messages constantly when using the search feature.">>,
     billing |-> <<
        "I was charged twice for my subscription this month. Please refund immediately.",
        "My billing shows incorrect amounts. Need clarification on charges.",
        "Automatic renewal didn't work. Please update my payment method.",
        "Discount code wasn't applied to my order. Can you fix this?">>,
     product |-> <<
        "Love the new dashboard! Makes everything so much easier.",
        "Great product overall but mobile app needs work.",
        "Missing feature: bulk operations. Would be great to have this.",
        "Excellent customer service and product quality!">>,
     shipping |-> <<
        "My order is late. Expected delivery was yesterday. Where is it?",
        "Package arrived damaged. Need replacement urgently.",
        "Fast shipping! Arrived earlier than expected. Very pleased.">>]

\* variant: two pools filed under each other's key
feedback_templates_swapped(im) ==
    IF im = "main"
    THEN [feedback_templates_main EXCEPT !.billing = feedback_templates_main.shipping,
                                         !.shipping = feedback_templates_main.billing]
    ELSE [feedback_templates_demo EXCEPT !.billing = feedback_templates_demo.shipping,
                                         !.shipping = feedback_templates_demo.billing]

feedback_templates(im) ==
    IF im = "main" THEN feedback_templates_main ELSE feedback_templates_demo

actions == <<"upload files", "sync data", "export reports", "share links", "update profile">>

features == <<"dashboard", "mobile app", "reporting", "integrations", "API", "search">>

suggestions == <<"bulk operations", "better filters", "dark mode", "mobile optimization">>

\* variant: another last channel
channels_phone == <<"email", "chat", "support_ticket", "review", "phone">>

channels == <<"email", "chat", "support_ticket", "review", "social">>

urgency_words(im) ==
    IF im = "main" THEN <<"URGENT", "ASAP", "immediately", "critical", "emergency">>
    ELSE <<"URGENT", "ASAP", "immediately", "critical">>

priorities == <<"low", "medium", "high">>

\* `np.random.random() < 0.15`, the draw in hundredths
UrgencyThreshold == 15

CustomerLow == 1
CustomerHigh == 50
DaysHigh == 30
HoursHigh == 24
RatingLow == 1
RatingHigh == 6
HoursPerDay == 24
IdWidth == 3

IsUrgent(u) == u < UrgencyThreshold

\* variant: no colon after the marker
PrependBare(word, t) == word \o " " \o t

\* f"{word}: " + text
Prepend(word, t) == word \o ": " \o t

\* variant: the id built from i
feedback_id_zero_based(k) == "feedback_" \o ZeroPad(k, IdWidth)

\* f'feedback_{i+1:03d}'
feedback_id_of(k) == "feedback_" \o ZeroPad(k + 1, IdWidth)

\* f'customer_{n:03d}'
customer_id_of(n) == "customer_" \o ZeroPad(n, IdWidth)

\* datetime.now() - timedelta(days=d, hours=h)
timestamp_of(t, d, h) == t - (HoursPerDay * d + h)

\* json.dumps({'category': c, 'rating': r or None, 'priority': p})
json_dumps(c, rated, r, p) ==
    "{\"category\": \"" \o c \o "\", \"rating\": "
        \o (IF rated THEN Decimal(r) ELSE "null")
        \o ", \"priority\": \"" \o p \o "\"}"

\* the dict appended by the main file
RowMain(k, n, ch, ts, t, meta) ==
    [feedback_id |-> feedback_id_of(k), customer_id |-> customer_id_of(n),
     channel |-> ch, timestamp |-> ts, raw_text |-> t, metadata |-> meta,
     processed |-> FALSE]

\* variant: no processed column
RowDemoUnflagged(k, n, ch, ts, t, c) ==
    [feedback_id |-> feedback_id_of(k), customer_id |-> customer_id_of(n),
     channel |-> ch, timestamp |-> ts, raw_text |-> t, category |-> c]

\* the dict appended by demo_only
RowDemo(k, n, ch, ts, t, c) ==
    [feedback_id |-> feedback_id_of(k), customer_id |-> customer_id_of(n),
     channel |-> ch, timestamp |-> ts, raw_text |-> t, category |-> c,
     processed |-> FALSE]

(***************************************************************************)
(* What a specification lets the random source produce, one set per draw:  *)
(* STRING or Int leaves a draw unrestricted. OneDraw fixes every outcome.  *)
(***************************************************************************)
OneDraw ==
    [category |-> {"technical"},
     template |-> {feedback_templates_main.technical[1], feedback_templates_demo.technical[1]},
     channel |-> {"email"}, action |-> {"upload files"}, feature |-> {"dashboard"},
     suggestion |-> {"bulk operations"}, u |-> {50}, word |-> {"URGENT"},
     customer |-> {1}, days |-> {0}, hours |-> {0}, rating |-> {1}, priority |-> {"low"}]

(***************************************************************************)
(* generate_sample_feedback_data, one action per statement of the loop.    *)
(***************************************************************************)
\* `for i in range(num_samples)`: another iteration
LoopEnter ==
    /\ pc = "for"
    /\ i \in Range(num_samples)
    /\ UNCHANGED rng
    /\ pc' = "choose"
    /\ UNCHANGED <<impl, num_samples, i, category, template, channel, text, feedback_data,
                   now, dbVars, restVars>>

\* the three np.random.choice calls that open the loop body
Choose(D) ==
    /\ pc = "choose"
    /\ \E c \in Restrict(choice(Keys), D.category) :
       \E t \in Restrict(choice(feedback_templates(impl)[c]), D.template) :
       \E ch \in Restrict(choice(channels), D.channel) :
            /\ category' = c
            /\ template' = t
            /\ channel' = ch
    /\ rng' = rng + 3
    /\ pc' = IF impl = "main" THEN "fill_action" ELSE "urgency"
    /\ UNCHANGED <<impl, num_samples, i, text, feedback_data, now, dbVars, restVars>>

\* text = template; text = text.replace('{action}', np.random.choice(actions))
FillAction(D) ==
    /\ pc = "fill_action"
    /\ \E a \in Restrict(choice(actions), D.action) :
            text' = Replace(template, "{action}", a)
    /\ rng' = rng + 1
    /\ pc' = "fill_feature"
    /\ UNCHANGED <<impl, num_samples, i, category, template, channel, feedback_data,
                   now, dbVars, restVars>>

\* text = text.replace('{feature}', np.random.choice(features))
FillFeature(D) ==
    /\ pc = "fill_feature"
    /\ \E f \in Restrict(choice(features), D.feature) :
            text' = Replace(text, "{feature}", f)
    /\ rng' = rng + 1
    /\ pc' = "fill_suggestion"
    /\ UNCHANGED <<impl, num_samples, i, category, template, channel, feedback_data,
                   now, dbVars, restVars>>

\* text = text.replace('{suggestion}', np.random.choice(suggestions))
FillSuggestion(D) ==
    /\ pc = "fill_suggestion"
    /\ \E g \in Restrict(choice(suggestions), D.suggestion) :
            text' = Replace(text, "{suggestion}", g)
    /\ rng' = rng + 1
    /\ pc' = "fill_literals"
    /\ UNCHANGED <<impl, num_samples, i, category, template, channel, feedback_data,
                   now, dbVars, restVars>>

\* the three replacements by literals
FillLiterals ==
    /\ pc = "fill_literals"
    /\ \E dated \in {Replace(text, "{date}", "yesterday")} :
       \E itemed \in {Replace(dated, "{item}", "premium plan")} :
            text' = Replace(itemed, "{wrong_item}", "basic plan")
    /\ UNCHANGED rng
    /\ pc' = "urgency"
    /\ UNCHANGED <<impl, num_samples, i, category, template, channel, feedback_data,
                   now, dbVars, restVars>>

\* `if np.random.random() < 0.15:` and the prefix; the main file prefixes
\* text, demo_only prefixes template
Urgency(D) ==
    /\ pc = "urgency"
    /\ \E u \in Restrict(random, D.u) :
         IF IsUrgent(u)
         THEN /\ \E w \in Restrict(choice(urgency_words(impl)), D.word) :
                    IF impl = "main"
                    THEN text' = Prepend(w, text) /\ template' = template
                    ELSE template' = Prepend(w, template) /\ text' = text
              /\ rng' = rng + 2
         ELSE /\ UNCHANGED <<text, template>>
              /\ rng' = rng + 1
    /\ pc' = "append"
    /\ UNCHANGED <<impl, num_samples, i, category, channel, feedback_data, now, dbVars, restVars>>

\* feedback_data.append({...}) of the main file
AppendMain(D) ==
    /\ pc = "append"
    /\ impl = "main"
    /\ \E n \in Restrict(randint(CustomerLow, CustomerHigh), D.customer) :
       \E d \in Restrict(randint(0, DaysHigh), D.days) :
       \E h \in Restrict(randint(0, HoursHigh), D.hours) :
       \E r \in IF channel = "review"
                THEN Restrict(randint(RatingLow, RatingHigh), D.rating) ELSE {0} :
       \E p \in Restrict(choice(priorities), D.priority) :
            feedback_data' = Append(feedback_data,
                RowMain(i, n, channel, timestamp_of(now, d, h), text,
                        json_dumps(category, channel = "review", r, p)))
    /\ rng' = rng + (IF channel = "review" THEN 5 ELSE 4)
    /\ i' = i + 1
    /\ pc' = "for"
    /\ UNCHANGED <<impl, num_samples, category, template, channel, text, now, dbVars, restVars>>

\* feedback_data.append({...}) of demo_only
AppendDemo(D) ==
    /\ pc = "append"
    /\ impl = "demo"
    /\ \E n \in Restrict(randint(CustomerLow, CustomerHigh), D.customer) :
       \E d \in Restrict(randint(0, DaysHigh), D.days) :
            feedback_data' = Append(feedback_data,
                RowDemo(i, n, channel, timestamp_of(now, d, 0), template, category))
    /\ rng' = rng + 2
    /\ i' = i + 1
    /\ pc' = "for"
    /\ UNCHANGED <<impl, num_samples, category, template, channel, text, now, dbVars, restVars>>

\* the loop is exhausted: return pd.DataFrame(feedback_data)
Return ==
    /\ pc = "for"
    /\ i \notin Range(num_samples)
    /\ UNCHANGED rng
    /\ pc' = "returned"
    /\ UNCHANGED <<impl, num_samples, i, category, template, channel, text, feedback_data,
                   now, dbVars, restVars>>

Generate(D) ==
    \/ LoopEnter
    \/ Choose(D)
    \/ FillAction(D)
    \/ FillFeature(D)
    \/ FillSuggestion(D)
    \/ FillLiterals
    \/ Urgency(D)
    \/ AppendMain(D)
    \/ AppendDemo(D)
    \/ Return

\* no second call, and run_complete_demo is not running
NoCall ==
    [impl |-> "main", num_samples |-> 0, pc |-> "idle", i |-> 0, category |-> "",
     template |-> "", channel |-> "", text |-> "", feedback_data |-> <<>>]

InitRest ==
    /\ rng = 0
    /\ demo_pc = "off"
    /\ dataset_exists = TRUE
    /\ created = "none"
    /\ printed = <<>>

\* the statements of the generator of the main file
GenerateMain(D) ==
    \/ LoopEnter
    \/ Choose(D)
    \/ FillAction(D)
    \/ FillFeature(D)
    \/ FillSuggestion(D)
    \/ FillLiterals
    \/ Urgency(D)
    \/ AppendMain(D)
    \/ Return

\* a call generate_sample_feedback_data(n) of the generator of source file im,
\* and what a second call has in its locals
InitCalls(im, n, second) ==
    /\ suspended = second
    /\ impl = im
    /\ num_samples = n
    /\ pc = "for"
    /\ i = 0
    /\ category = ""
    /\ template = ""
    /\ channel = ""
    /\ text = ""
    /\ feedback_data = <<>>
    /\ now = 0
    /\ customer_feedback = <<>>
    /\ feedback_insights = <<>>
    /\ proc_pc = "idle"
    /\ InitRest

\* a call generate_sample_feedback_data(n) on its own
InitCall(im, n) == InitCalls(im, n, NoCall)

Impls == {"main", "demo"}

(***************************************************************************)
(* Specification: the ids of a batch. Counts range over small values,      *)
(* negative ones and values around MaxCount; every draw is fixed.          *)
(***************************************************************************)
IdCounts == ((0 - NegCounts)..SmallCounts) \cup {MaxCount - 1, MaxCount}

InitIds == \E im \in Impls : \E n \in IdCounts : InitCall(im, n)

NextIds == Generate(OneDraw)

SpecIds == InitIds /\ [][NextIds]_vars

(***************************************************************************)
(* Reading an id back.                                                     *)
(***************************************************************************)
IsDigits(s) == \A p \in 1..Len(s) : SubSeq(s, p, p) \in choice(Digits)

DigitValue(c) == CHOOSE d \in 0..9 : Digits[d + 1] = c

RECURSIVE ParseDecimal(_)
ParseDecimal(s) ==
    IF Len(s) = 0 THEN 0
    ELSE 10 * ParseDecimal(SubSeq(s, 1, Len(s) - 1)) + DigitValue(SubSeq(s, Len(s), Len(s)))

\* the text after the prefix of an id
IdSuffix(id, prefix) == Drop(id, Len(prefix))

\* an id is the prefix followed by decimal digits
WellFormedId(id, prefix) ==
    /\ StartsWith(id, prefix)
    /\ Len(id) > Len(prefix)
    /\ IsDigits(IdSuffix(id, prefix))

IdNumber(id, prefix) == ParseDecimal(IdSuffix(id, prefix))

(***************************************************************************)
(* C1. For every count >= 0 the call returns exactly count rows in         *)
(* generation order; the row at 0-based position i carries the id built    *)
(* from i+1, so the ids start at feedback_001, are dense, strictly         *)
(* increasing (as numbers) and free of duplicates. While the loop runs the *)
(* newest row carries the number of rows generated so far.                 *)
(***************************************************************************)
C1_BatchIds ==
    /\ (feedback_data # <<>> =>
            /\ WellFormedId(Last(feedback_data).feedback_id, "feedback_")
            /\ IdNumber(Last(feedback_data).feedback_id, "feedback_") = Len(feedback_data))
    /\ (pc = "returned" /\ num_samples >= 0 =>
            /\ Len(feedback_data) = num_samples
            /\ (num_samples >= 1 => feedback_data[1].feedback_id = "feedback_001")
            /\ \A k \in 1..Len(feedback_data) :
                    /\ WellFormedId(feedback_data[k].feedback_id, "feedback_")
                    /\ IdNumber(feedback_data[k].feedback_id, "feedback_") = k
            /\ \A k \in 1..(Len(feedback_data) - 1) :
                    IdNumber(feedback_data[k + 1].feedback_id, "feedback_")
                        = IdNumber(feedback_data[k].feedback_id, "feedback_") + 1
            /\ \A j, k \in 1..Len(feedback_data) :
                    j # k => feedback_data[j].feedback_id # feedback_data[k].feedback_id)

\* a returned batch of several rows
C1_Witness ==
    /\ pc = "returned"
    /\ num_samples >= 2
    /\ Len(feedback_data) = num_samples
    /\ feedback_data[2].feedback_id = "feedback_002"

IdFormatOf(id, k) ==
    /\ WellFormedId(id, "feedback_")
    /\ IdNumber(id, "feedback_") = k
    /\ (k <= 999 => Len(IdSuffix(id, "feedback_")) = 3)
    /\ (k >= 1000 /\ k <= 9999 =>
            /\ Len(IdSuffix(id, "feedback_")) = 4
            /\ SubSeq(IdSuffix(id, "feedback_"), 1, 1) # "0")

C9_RejectsNegative ==
    /\ (num_samples < 0 => pc # "returned")
    /\ (num_samples >= 0 => pc # "raised")
    /\ (num_samples = 0 /\ pc = "returned" => feedback_data = <<>>)

(***************************************************************************)
(* C9, amended. The call signals an error for no integer count: it never   *)
(* raises; at the head of the loop it can always either iterate or return; *)
(* for a negative count, as for 0, it cannot iterate and returns the empty *)
(* sequence; for count >= 0 it returns count rows.                         *)
(***************************************************************************)
C9_NeverRejects ==
    /\ pc # "raised"
    /\ (pc = "for" => ENABLED (LoopEnter \/ Return))
    /\ (num_samples <= 0 => feedback_data = <<>> /\ ~ ENABLED LoopEnter)
    /\ (pc = "returned" /\ num_samples >= 0 => Len(feedback_data) = num_samples)

\* a call with a negative count that has returned
C9_Witness ==
    /\ pc = "returned"
    /\ num_samples < 0
    /\ feedback_data = <<>>

(***************************************************************************)
(* Two calls of the generator. Every name of the function body is a local  *)
(* of the call; a second call has its own. The scheduler may switch        *)
(* between the two calls after any statement.                              *)
(***************************************************************************)
\* variant: the loop variable is one global that both calls use
FrameSharingIndex ==
    [impl |-> impl, num_samples |-> num_samples, pc |-> pc, i |-> suspended.i,
     category |-> category, template |-> template, channel |-> channel, text |-> text,
     feedback_data |-> feedback_data]

\* the locals of the running call
Frame ==
    [impl |-> impl, num_samples |-> num_samples, pc |-> pc, i |-> i,
     category |-> category, template |-> template, channel |-> channel, text |-> text,
     feedback_data |-> feedback_data]

\* the running call is suspended and the other one resumed
Switch ==
    /\ suspended.pc # "idle"
    /\ suspended' = Frame
    /\ impl' = suspended.impl
    /\ num_samples' = suspended.num_samples
    /\ pc' = suspended.pc
    /\ i' = suspended.i
    /\ category' = suspended.category
    /\ template' = suspended.template
    /\ channel' = suspended.channel
    /\ text' = suspended.text
    /\ feedback_data' = suspended.feedback_data
    /\ UNCHANGED <<now, dbVars, rng, demoVars>>

\* the second call, about to begin
Called(im, n) == [NoCall EXCEPT !.impl = im, !.num_samples = n, !.pc = "for"]

(***************************************************************************)
(* Specification: two interleaved calls generate(m) and generate(n) of     *)
(* either source file, m and n up to MaxPairSamples; every draw is fixed.  *)
(***************************************************************************)
InitPair ==
    \E im1, im2 \in Impls : \E m, n \in 0..MaxPairSamples :
        InitCalls(im1, m, Called(im2, n))

NextPair == Generate(OneDraw) \/ Switch

SpecPair == InitPair /\ [][NextPair]_vars

\* the rows of a call so far are as many as its loop has completed, with the ids
\* feedback_001.. in order
DenseSoFar(F) ==
    /\ Len(F.feedback_data) = F.i
    /\ \A k \in 1..Len(F.feedback_data) :
            /\ WellFormedId(F.feedback_data[k].feedback_id, "feedback_")
            /\ Len(IdSuffix(F.feedback_data[k].feedback_id, "feedback_")) = 3
            /\ IdNumber(F.feedback_data[k].feedback_id, "feedback_") = k

\* a returned call has returned as many rows as it was asked for
OwnCount(F) == F.pc = "returned" => Len(F.feedback_data) = F.num_samples

\* a statement of the running call changes, outside the locals of that call,
\* the random stream and nothing else; a switch changes no local and no stream
OnlyTheStreamShared ==
    \/ /\ suspended' = suspended
       /\ UNCHANGED <<now, dbVars, demoVars>>
       /\ rng' >= rng
       /\ (pc \in {"choose", "urgency", "append"} => rng' > rng)
    \/ /\ suspended' = Frame
       /\ Frame' = suspended
       /\ UNCHANGED <<now, dbVars, demoVars, rng>>

(***************************************************************************)
(* C19. Calls of the generator are independent: under every interleaving   *)
(* of generate(m) and generate(n) each call returns its own m (resp. n)    *)
(* rows with the ids feedback_001.. dense and in order, and a statement of *)
(* one call changes nothing the other call has or reads but the            *)
(* random-number stream.                                                   *)
(***************************************************************************)
C19_IndependentCalls ==
    /\ [][OnlyTheStreamShared]_vars
    /\ [](DenseSoFar(Frame) /\ DenseSoFar(suspended))
    /\ [](OwnCount(Frame) /\ OwnCount(suspended))

\* both calls in the middle of their second iteration, one row each
C19_Witness ==
    /\ pc = "append"
    /\ suspended.pc = "urgency"
    /\ num_samples = 2
    /\ suspended.num_samples = 2
    /\ Len(feedback_data) = 1
    /\ Len(suspended.feedback_data) = 1
    /\ feedback_data[1].feedback_id = "feedback_001"
    /\ suspended.feedback_data[1].feedback_id = "feedback_001"
    /\ rng > 0

(***************************************************************************)
(* Specification: channel, customer and columns. The channel, customer and *)
(* rating draws range over every outcome; the other draws are fixed.       *)
(***************************************************************************)
DrawsFields == [OneDraw EXCEPT !.channel = STRING, !.customer = Int, !.rating = Int]

InitFields == \E im \in Impls : \E n \in 0..MaxFieldSamples : InitCall(im, n)

NextFields == Generate(DrawsFields)

SpecFields == InitFields /\ [][NextFields]_vars

(***************************************************************************)
(* C3. Every row the generator produces has its channel in {email, chat,   *)
(* support_ticket, review, social} and processed = false, whatever the     *)
(* random choices.                                                         *)
(***************************************************************************)
C3_ChannelAndFlag ==
    \A k \in 1..Len(feedback_data) :
        /\ feedback_data[k].channel \in {"email", "chat", "support_ticket", "review", "social"}
        /\ feedback_data[k].processed = FALSE

\* a returned row of the last channel of the list
C3_Witness ==
    /\ pc = "returned"
    /\ Len(feedback_data) >= 1
    /\ feedback_data[1].channel = "social"
    /\ feedback_data[1].processed = FALSE

(***************************************************************************)
(* C4, as claimed. customer_id is `customer_` plus the zero-padded number  *)
(* N drawn from the inclusive range [1,50]: no row has N outside 1..50,    *)
(* and whenever a row is about to be appended every N of 1..50,            *)
(* customer_050 included, is a possible outcome.                           *)
(***************************************************************************)
CustomerNumberIn(r, S) ==
    /\ WellFormedId(r.customer_id, "customer_")
    /\ Len(IdSuffix(r.customer_id, "customer_")) = 3
    /\ IdNumber(r.customer_id, "customer_") \in S

\* the append step can draw customer number n, giving the id named
CanDrawCustomer(n, id) ==
    ENABLED (/\ \/ AppendMain([DrawsFields EXCEPT !.customer = {n}])
                \/ AppendDemo([DrawsFields EXCEPT !.customer = {n}])
             /\ Last(feedback_data').customer_id = id)

C4_InclusiveRange ==
    /\ \A k \in 1..Len(feedback_data) : CustomerNumberIn(feedback_data[k], 1..50)
    /\ (pc = "append" =>
            /\ \A n \in 1..50 : CanDrawCustomer(n, "customer_" \o ZeroPad(n, 3))
            /\ CanDrawCustomer(50, "customer_050"))

(***************************************************************************)
(* C4, what the code does. N is drawn from 1..49: every one of them is a   *)
(* possible outcome, and neither 50 nor any other number is.               *)
(***************************************************************************)
C4_HalfOpenRange ==
    /\ \A k \in 1..Len(feedback_data) : CustomerNumberIn(feedback_data[k], 1..49)
    /\ (pc = "append" =>
            /\ \A n \in 1..49 : CanDrawCustomer(n, "customer_" \o ZeroPad(n, 3))
            /\ ~ CanDrawCustomer(50, "customer_050")
            /\ ~ CanDrawCustomer(0, "customer_000"))

(***************************************************************************)
(* C5, as claimed. Every row of the generator of either source file has    *)
(* exactly the columns feedback_id, customer_id, channel, timestamp,       *)
(* raw_text, category, processed.                                          *)
(***************************************************************************)
SinkColumns ==
    {"feedback_id", "customer_id", "channel", "timestamp", "raw_text", "category",
     "processed"}

MetadataCategories(meta) ==
    {c \in {"technical", "billing", "product", "shipping"} :
        StartsWith(meta, "{\"category\": \"" \o c \o "\", \"rating\": ")}

DrawsTime == [OneDraw EXCEPT !.days = Int, !.hours = Int]

InitTime == \E im \in Impls : \E n \in 0..MaxTimeSamples : InitCall(im, n)

NextTime == Generate(DrawsTime)

SpecTime == InitTime /\ [][NextTime]_vars

\* the row's timestamp lies a day offset of Ds and an hour offset of Hs (hours
\* of 0..23) back: now - timestamp = 24 * d + h with d in Ds and h in Hs
OffsetIn(r, Ds, Hs) ==
    /\ (now - r.timestamp) \div 24 \in Ds
    /\ (now - r.timestamp) % 24 \in Hs

\* the append step can draw the offsets d and h, giving generation time minus both
CanDrawOffset(d, h) ==
    ENABLED (/\ \/ AppendMain([DrawsTime EXCEPT !.days = {d}, !.hours = {h}])
                \/ AppendDemo([DrawsTime EXCEPT !.days = {d}, !.hours = {h}])
             /\ Last(feedback_data').timestamp = now - (24 * d + h))

(***************************************************************************)
(* C8, as claimed. Every row's timestamp is the generation time minus a    *)
(* whole-day offset in [0,30) and a whole-hour offset in [0,24): never     *)
(* later than the generation time, less than 30 days before it, and every  *)
(* day offset 0..29 with every hour offset 0..23 is possible.              *)
(***************************************************************************)
C8_DayAndHourOffsets ==
    /\ \A k \in 1..Len(feedback_data) :
            /\ OffsetIn(feedback_data[k], 0..29, 0..23)
            /\ feedback_data[k].timestamp <= now
            /\ now - feedback_data[k].timestamp < 30 * 24
    /\ (pc = "append" => \A d \in 0..29 : \A h \in 0..23 : CanDrawOffset(d, h))

(***************************************************************************)
(* C8, amended. In the main file every row's timestamp is the generation   *)
(* time minus a day offset in [0,30) and an hour offset in [0,24), every   *)
(* pair of offsets being possible. In demo_only it is the generation time  *)
(* minus a day offset in [0,30) alone: every day offset is possible and no *)
(* hour offset other than 0 is. In both it is never later than the         *)
(* generation time and less than 30 days before it.                        *)
(***************************************************************************)
C8_OffsetsPerFile ==
    /\ \A k \in 1..Len(feedback_data) :
            /\ OffsetIn(feedback_data[k], 0..29, IF impl = "main" THEN 0..23 ELSE {0})
            /\ feedback_data[k].timestamp <= now
            /\ now - feedback_data[k].timestamp < 30 * 24
    /\ (pc = "append" =>
            /\ \A d \in 0..29 : \A h \in 0..23 :
                    CanDrawOffset(d, h) <=> (impl = "main" \/ h = 0)
            /\ ~ CanDrawOffset(30, 0)
            /\ ~ CanDrawOffset(0, 24))

\* a returned row of the main file with the largest offsets
C8_Witness ==
    /\ pc = "returned"
    /\ impl = "main"
    /\ Len(feedback_data) >= 1
    /\ feedback_data[1].timestamp = now - (24 * 29 + 23)

(***************************************************************************)
(* Specification: texts. The category, template, placeholder and marker    *)
(* draws range over every outcome, the random() draw over the values at    *)
(* and next to its ends and the threshold; the other draws are fixed.      *)
(***************************************************************************)
DrawsText ==
    [OneDraw EXCEPT !.category = STRING, !.template = STRING, !.action = STRING,
                    !.feature = STRING, !.suggestion = STRING, !.word = STRING,
                    !.u = {0, UrgencyThreshold - 1, UrgencyThreshold, 99}]

InitText == \E im \in Impls : \E n \in 0..MaxTextSamples : InitCall(im, n)

NextText == Generate(DrawsText)

SpecText == InitText /\ [][NextText]_vars

\* a template with every placeholder replaced
Instantiate(t, a, f, g) ==
    Replace(Replace(Replace(Replace(Replace(Replace(t,
        "{action}", a), "{feature}", f), "{suggestion}", g),
        "{date}", "yesterday"), "{item}", "premium plan"), "{wrong_item}", "basic plan")

FourCategories == {"technical", "billing", "product", "shipping"}

FiveMarkers == {"URGENT", "ASAP", "immediately", "critical", "emergency"}

\* per category, the instantiations of the templates of its pool
MainInstances ==
    [c \in FourCategories |->
        {Instantiate(feedback_templates_main[c][k], a, f, g) :
            k \in 1..5, a \in choice(actions), f \in choice(features),
            g \in choice(suggestions)}]

DemoInstances ==
    [c \in FourCategories |-> choice(feedback_templates_demo[c])]

Instances(im) == IF im = "main" THEN MainInstances ELSE DemoInstances

\* a text, and the text with one leading urgency marker and ": " removed
Bodies(t) ==
    {t} \cup {Drop(t, Len(w) + 2) : w \in {m \in FiveMarkers : StartsWith(t, m \o ": ")}}

\* the ground-truth category of a row: the category column of demo_only, the
\* category of the metadata JSON of the main file
GroundTruth(r) ==
    IF "category" \in DOMAIN r THEN {r.category} ELSE MetadataCategories(r.metadata)

(***************************************************************************)
(* C6. For every row the (ground-truth) category is one of technical,      *)
(* billing, product, shipping and is the key of the pool the text was      *)
(* drawn from: raw_text, with an optional urgency prefix removed, is an    *)
(* instantiation of a template of that category's pool and of no other     *)
(* category's pool.                                                        *)
(***************************************************************************)
C6_CategoryIsPool ==
    \A k \in 1..Len(feedback_data) :
        LET r == feedback_data[k] IN
            /\ Cardinality(GroundTruth(r)) = 1
            /\ \A c \in GroundTruth(r) :
                    /\ c \in FourCategories
                    /\ \E b \in Bodies(r.raw_text) : b \in Instances(impl)[c]
                    /\ \A other \in FourCategories \ {c} :
                            \A b \in Bodies(r.raw_text) : b \notin Instances(impl)[other]

\* a returned row of the main file from the product pool, with a marker
C6_Witness ==
    /\ pc = "returned"
    /\ impl = "main"
    /\ Len(feedback_data) >= 1
    /\ GroundTruth(feedback_data[1]) = {"product"}
    /\ feedback_data[1].raw_text
            = "critical: The search could be improved. Here's my suggestion: dark mode"

\* the text the urgency statement works on: text in the main file, template in demo_only
Subject == IF impl = "main" THEN text ELSE template

\* the urgency statement can choose marker w, giving w, ": " and the text
CanChooseMarker(w) ==
    ENABLED (/\ Urgency([DrawsText EXCEPT !.u = {0}, !.word = {w}])
             /\ (IF impl = "main" THEN text' ELSE template') = w \o ": " \o Subject)

\* the urgency statement can leave the text alone
CanSkipMarker ==
    ENABLED (/\ Urgency([DrawsText EXCEPT !.u = {99}])
             /\ (IF impl = "main" THEN text' ELSE template') = Subject)

\* the urgency statement leaves the text alone or puts one marker of Ws and ": " before it
OneMarkerStep(Ws) ==
    pc = "urgency" /\ pc' = "append" =>
        LET before == Subject
            after == IF impl = "main" THEN text' ELSE template'
        IN  \/ after = before
            \/ \E w \in Ws : after = w \o ": " \o before

\* the appended row carries the text as the urgency statement left it
RowCarriesText ==
    pc = "append" /\ pc' = "for" => Last(feedback_data').raw_text = Subject

(***************************************************************************)
(* C7, as claimed. Per row the generator prepends at most one urgency      *)
(* marker followed by ": "; the marker is one of URGENT, ASAP,             *)
(* immediately, critical, emergency and each of the five can be chosen; a  *)
(* row with no marker has raw_text equal to the instantiated template.     *)
(***************************************************************************)
C7_FiveMarkers ==
    /\ [][OneMarkerStep(FiveMarkers) /\ RowCarriesText]_vars
    /\ [](pc = "urgency" => CanSkipMarker /\ \A w \in FiveMarkers : CanChooseMarker(w))

(***************************************************************************)
(* C7, amended. Per row the generator prepends at most one urgency marker  *)
(* followed by ": "; a row with no marker has raw_text equal to the        *)
(* instantiated template. In the main file the marker is one of URGENT,    *)
(* ASAP, immediately, critical, emergency and each of the five can be      *)
(* chosen; in demo_only it is one of the first four, each of which can be  *)
(* chosen, and emergency cannot.                                           *)
(***************************************************************************)
MarkersOf(im) == IF im = "main" THEN FiveMarkers ELSE FiveMarkers \ {"emergency"}

C7_MarkersPerFile ==
    /\ [][OneMarkerStep(MarkersOf(impl)) /\ RowCarriesText]_vars
    /\ [](pc = "urgency" =>
            /\ CanSkipMarker
            /\ \A w \in FiveMarkers : CanChooseMarker(w) <=> w \in MarkersOf(impl))

\* a returned row of the main file that carries the fifth marker
C7_Witness ==
    /\ pc = "returned"
    /\ impl = "main"
    /\ Len(feedback_data) >= 1
    /\ feedback_data[1].raw_text = "emergency: Login issues persist. Can't authenticate properly."

(***************************************************************************)
(* Specification: placeholders. The category, template and placeholder     *)
(* draws range over every outcome, the random() draw over one value on     *)
(* each side of the threshold; the other draws are fixed.                  *)
(***************************************************************************)
DrawsFill ==
    [OneDraw EXCEPT !.category = STRING, !.template = STRING, !.action = STRING,
                    !.feature = STRING, !.suggestion = STRING, !.u = {0, 99}]

InitFill == \E im \in Impls : \E n \in 0..MaxFillSamples : InitCall(im, n)

NextFill == Generate(DrawsFill)

SpecFill == InitFill /\ [][NextFill]_vars

Placeholders == {"{action}", "{feature}", "{suggestion}", "{date}", "{item}", "{wrong_item}"}

\* the text with its first occurrence of the placeholder ph cut out and v put in
\* its place; a text without ph as it is
PutInPlace(before, ph, v) ==
    IF ~ Contains(before, ph) THEN before
    ELSE LET p == CHOOSE q \in 1..Len(before) :
                    /\ SubSeq(before, q, q + Len(ph) - 1) = ph
                    /\ \A o \in 1..(q - 1) : SubSeq(before, o, o + Len(ph) - 1) # ph
         IN  SubSeq(before, 1, p - 1) \o v \o Drop(before, p + Len(ph) - 1)

\* after is before with the placeholder ph replaced by a value of the pool, and
\* holds ph no more
Substituted(before, after, ph, pool) ==
    /\ ~ Contains(after, ph)
    /\ \E v \in pool : after = PutInPlace(before, ph, v)

\* the placeholder statements, step by step
FillSteps ==
    /\ (pc = "fill_action" /\ pc' = "fill_feature"
            => Substituted(template, text', "{action}", choice(actions)))
    /\ (pc = "fill_feature" /\ pc' = "fill_suggestion"
            => Substituted(text, text', "{feature}", choice(features)))
    /\ (pc = "fill_suggestion" /\ pc' = "fill_literals"
            => Substituted(text, text', "{suggestion}", choice(suggestions)))
    /\ (pc = "fill_literals" /\ pc' = "urgency"
            => /\ text' = PutInPlace(PutInPlace(PutInPlace(text,
                            "{date}", "yesterday"), "{item}", "premium plan"),
                            "{wrong_item}", "basic plan")
               /\ \A ph \in {"{date}", "{item}", "{wrong_item}"} : ~ Contains(text', ph))

NoPlaceholderLeft ==
    /\ (pc \in {"urgency", "append"} => \A ph \in Placeholders : ~ Contains(Subject, ph))
    /\ \A k \in 1..Len(feedback_data) :
            /\ feedback_data[k].raw_text # ""
            /\ \A ph \in Placeholders : ~ Contains(feedback_data[k].raw_text, ph)
            /\ ~ Contains(feedback_data[k].raw_text, "{")
            /\ ~ Contains(feedback_data[k].raw_text, "}")

(***************************************************************************)
(* C17. In every generated record raw_text is non-empty and holds no       *)
(* placeholder: each statement of the fill sequence replaces the           *)
(* occurrence of its placeholder in the chosen template, {action},         *)
(* {feature} and {suggestion} by a member of the value pool, {date},       *)
(* {item} and {wrong_item} by yesterday, premium plan and basic plan, and  *)
(* leaves the rest of the text as it is.                                   *)
(***************************************************************************)
C17_PlaceholdersFilled == [][FillSteps]_vars /\ []NoPlaceholderLeft

\* a returned row of the template with two literal placeholders
C17_Witness ==
    /\ pc = "returned"
    /\ impl = "main"
    /\ Len(feedback_data) >= 1
    /\ feedback_data[1].raw_text
            = "Wrong item shipped. Ordered premium plan but received basic plan."

(***************************************************************************)
(* The labeler: the CASE expressions of ProcessCustomerFeedback.           *)
(***************************************************************************)
LowerLetters == "abcdefghijklmnopqrstuvwxyz"

UpperLetters == "ABCDEFGHIJKLMNOPQRSTUVWXYZ"

UpperChar(c) ==
    IF \E p \in 1..Len(LowerLetters) : SubSeq(LowerLetters, p, p) = c
    THEN LET p == CHOOSE q \in 1..Len(LowerLetters) : SubSeq(LowerLetters, q, q) = c
         IN  SubSeq(UpperLetters, p, p)
    ELSE c

\* variant: no case folding
UPPER_unfolded(s) == s

\* UPPER(s)
RECURSIVE UPPER(_)
UPPER(s) == IF Len(s) = 0 THEN "" ELSE UpperChar(SubSeq(s, 1, 1)) \o UPPER(Drop(s, 1))

\* variant: the pattern anchored at both ends
REGEXP_FULL_MATCH(s, alternatives) ==
    \E k \in DOMAIN alternatives : s = alternatives[k]

\* REGEXP_CONTAINS(s, r'(A|B|...)'), the pattern given as its alternatives
REGEXP_CONTAINS(s, alternatives) ==
    \E k \in DOMAIN alternatives : Contains(s, alternatives[k])

\* variant: the third rule tested first
sentiment_score_reordered(raw_text) ==
    LET U == UPPER(raw_text) IN
    IF REGEXP_CONTAINS(U, <<"PROBLEM", "ISSUE", "ERROR", "BROKEN", "CRASH">>) THEN 0 - 4
    ELSE IF REGEXP_CONTAINS(U, <<"LOVE", "GREAT", "EXCELLENT", "AMAZING">>) THEN 8
    ELSE IF REGEXP_CONTAINS(U, <<"HATE", "TERRIBLE", "AWFUL", "WORST">>) THEN 0 - 8
    ELSE IF REGEXP_CONTAINS(U, <<"GOOD", "NICE", "HELPFUL">>) THEN 3
    ELSE 0

\* variant: the score sampled from the random stream on odd draws
sentiment_score_sampled(raw_text) ==
    LET U == UPPER(raw_text) IN
    IF rng % 2 = 1 THEN 3
    ELSE IF REGEXP_CONTAINS(U, <<"LOVE", "GREAT", "EXCELLENT", "AMAZING">>) THEN 8
    ELSE IF REGEXP_CONTAINS(U, <<"HATE", "TERRIBLE", "AWFUL", "WORST">>) THEN 0 - 8
    ELSE IF REGEXP_CONTAINS(U, <<"PROBLEM", "ISSUE", "ERROR", "BROKEN", "CRASH">>) THEN 0 - 4
    ELSE IF REGEXP_CONTAINS(U, <<"GOOD", "NICE", "HELPFUL">>) THEN 3
    ELSE 0

\* CASE ... END as sentiment_score, in tenths
sentiment_score(raw_text) ==
    LET U == UPPER(raw_text) IN
    IF REGEXP_CONTAINS(U, <<"LOVE", "GREAT", "EXCELLENT", "AMAZING">>) THEN 8
    ELSE IF REGEXP_CONTAINS(U, <<"HATE", "TERRIBLE", "AWFUL", "WORST">>) THEN 0 - 8
    ELSE IF REGEXP_CONTAINS(U, <<"PROBLEM", "ISSUE", "ERROR", "BROKEN", "CRASH">>) THEN 0 - 4
    ELSE IF REGEXP_CONTAINS(U, <<"GOOD", "NICE", "HELPFUL">>) THEN 3
    ELSE 0

\* variant: a crash report is never critical
urgency_level_by_sentiment(raw_text) ==
    LET U == UPPER(raw_text) IN
    IF REGEXP_CONTAINS(U, <<"PROBLEM", "ISSUE", "ERROR", "BROKEN", "CRASH">>) THEN "medium"
    ELSE IF REGEXP_CONTAINS(U, <<"URGENT", "ASAP", "CRITICAL", "EMERGENCY", "IMMEDIATELY">>)
    THEN "critical"
    ELSE IF REGEXP_CONTAINS(U, <<"IMPORTANT", "SOON", "QUICKLY">>) THEN "high"
    ELSE "low"

\* variant: the first rule lists three of the five keywords
urgency_level_three_markers(raw_text) ==
    LET U == UPPER(raw_text) IN
    IF REGEXP_CONTAINS(U, <<"URGENT", "ASAP", "CRITICAL">>) THEN "critical"
    ELSE IF REGEXP_CONTAINS(U, <<"IMPORTANT", "SOON", "QUICKLY">>) THEN "high"
    ELSE IF REGEXP_CONTAINS(U, <<"ISSUE", "PROBLEM", "ERROR">>) THEN "medium"
    ELSE "low"

\* CASE ... END as urgency_level
urgency_level(raw_text) ==
    LET U == UPPER(raw_text) IN
    IF REGEXP_CONTAINS(U, <<"URGENT", "ASAP", "CRITICAL", "EMERGENCY", "IMMEDIATELY">>)
    THEN "critical"
    ELSE IF REGEXP_CONTAINS(U, <<"IMPORTANT", "SOON", "QUICKLY">>) THEN "high"
    ELSE IF REGEXP_CONTAINS(U, <<"ISSUE", "PROBLEM", "ERROR">>) THEN "medium"
    ELSE "low"

\* variant: the CASE without its ELSE, NULL when no rule matches
category_array_no_else(raw_text) ==
    LET U == UPPER(raw_text) IN
    IF REGEXP_CONTAINS(U, <<"CRASH", "ERROR", "LOGIN", "BUG", "SLOW">>) THEN <<"technical">>
    ELSE IF REGEXP_CONTAINS(U, <<"CHARGE", "BILL", "PAYMENT", "REFUND", "SUBSCRIPTION">>)
    THEN <<"billing">>
    ELSE IF REGEXP_CONTAINS(U, <<"SHIP", "DELIVERY", "PACKAGE", "ORDER">>) THEN <<"shipping">>
    ELSE IF REGEXP_CONTAINS(U, <<"FEATURE", "PRODUCT", "IMPROVEMENT", "SUGGESTION">>)
    THEN <<"product">>
    ELSE <<>>

\* variant: the billing rule tested first
category_array_billing_first(raw_text) ==
    LET U == UPPER(raw_text) IN
    IF REGEXP_CONTAINS(U, <<"CHARGE", "BILL", "PAYMENT", "REFUND", "SUBSCRIPTION">>)
    THEN <<"billing">>
    ELSE IF REGEXP_CONTAINS(U, <<"CRASH", "ERROR", "LOGIN", "BUG", "SLOW">>) THEN <<"technical">>
    ELSE IF REGEXP_CONTAINS(U, <<"SHIP", "DELIVERY", "PACKAGE", "ORDER">>) THEN <<"shipping">>
    ELSE IF REGEXP_CONTAINS(U, <<"FEATURE", "PRODUCT", "IMPROVEMENT", "SUGGESTION">>)
    THEN <<"product">>
    ELSE <<"other">>

\* CASE ... END as category, an ARRAY<STRING> of one element
category_array(raw_text) ==
    LET U == UPPER(raw_text) IN
    IF REGEXP_CONTAINS(U, <<"CRASH", "ERROR", "LOGIN", "BUG", "SLOW">>) THEN <<"technical">>
    ELSE IF REGEXP_CONTAINS(U, <<"CHARGE", "BILL", "PAYMENT", "REFUND", "SUBSCRIPTION">>)
    THEN <<"billing">>
    ELSE IF REGEXP_CONTAINS(U, <<"SHIP", "DELIVERY", "PACKAGE", "ORDER">>) THEN <<"shipping">>
    ELSE IF REGEXP_CONTAINS(U, <<"FEATURE", "PRODUCT", "IMPROVEMENT", "SUGGESTION">>)
    THEN <<"product">>
    ELSE <<"other">>

SummaryLength == 100

\* SUBSTR(s, 1, n)
SUBSTR1(s, n) == SubSeq(s, 1, IF Len(s) < n THEN Len(s) ELSE n)

\* the row the SELECT of the procedure computes from a feedback row
InsightOf(f) ==
    [feedback_id |-> f.feedback_id,
     sentiment_score |-> sentiment_score(f.raw_text),
     urgency_level |-> urgency_level(f.raw_text),
     category |-> category_array(f.raw_text),
     key_themes |-> <<"customer_experience", "technical_issue">>,
     summary |-> "Customer reported: " \o SUBSTR1(f.raw_text, SummaryLength),
     action_items |-> <<"investigate_issue", "contact_customer", "escalate_to_team">>,
     embeddings |-> <<>>,
     processed_at |-> now]

Unprocessed(f) == f.processed = FALSE

\* variant: the INSERT without its WHERE clause
ProcInsertAll ==
    /\ proc_pc = "idle"
    /\ feedback_insights' = feedback_insights \o
            [k \in 1..Len(customer_feedback) |-> InsightOf(customer_feedback[k])]
    /\ proc_pc' = "update"
    /\ UNCHANGED <<genVars, rng, restVars, now, customer_feedback>>

\* INSERT INTO feedback_insights ... SELECT ... WHERE f.processed = FALSE
ProcInsert ==
    /\ proc_pc = "idle"
    /\ feedback_insights' = feedback_insights \o
            [k \in 1..Len(SelectSeq(customer_feedback, Unprocessed)) |->
                InsightOf(SelectSeq(customer_feedback, Unprocessed)[k])]
    /\ proc_pc' = "update"
    /\ UNCHANGED <<genVars, rng, restVars, now, customer_feedback>>

\* UPDATE customer_feedback SET processed = TRUE WHERE processed = FALSE
ProcUpdate ==
    /\ proc_pc = "update"
    /\ customer_feedback' =
            [k \in 1..Len(customer_feedback) |->
                IF customer_feedback[k].processed = FALSE
                THEN [customer_feedback[k] EXCEPT !.processed = TRUE]
                ELSE customer_feedback[k]]
    /\ proc_pc' = "idle"
    /\ UNCHANGED <<genVars, rng, restVars, now, feedback_insights>>

\* a client of the warehouse inserts one feedback row, the next of the table, while
\* the table holds fewer than cap rows; metadata is nullable and processed defaults
\* to FALSE
InsertFeedbackRow(t, cap) ==
    /\ Len(customer_feedback) < cap
    /\ customer_feedback' = Append(customer_feedback,
            [feedback_id |-> feedback_id_of(Len(customer_feedback)),
             customer_id |-> customer_id_of(CustomerLow),
             channel |-> channels[1], timestamp |-> now, raw_text |-> t,
             metadata |-> "null", processed |-> FALSE])
    /\ UNCHANGED <<genVars, rng, restVars, now, feedback_insights, proc_pc>>

\* the same, into the empty table
InsertFeedback(t) == InsertFeedbackRow(t, 1)

\* no call of the generator is under way
InitIdle ==
    /\ suspended = NoCall
    /\ impl = "main"
    /\ num_samples = 0
    /\ pc = "idle"
    /\ i = 0
    /\ category = ""
    /\ template = ""
    /\ channel = ""
    /\ text = ""
    /\ feedback_data = <<>>
    /\ now = 0
    /\ customer_feedback = <<>>
    /\ feedback_insights = <<>>
    /\ proc_pc = "idle"
    /\ InitRest

(***************************************************************************)
(* C18. Ground truth and derived category are not reconciled: the          *)
(* generator can produce records whose text the labeler files under        *)
(* another category than the record's own. Every record of the billing     *)
(* template `Discount code wasn't applied to my order. Can you fix this?`  *)
(* has the ground truth billing and is labelled shipping, and every record *)
(* of `Excellent customer service and product quality!` has the ground     *)
(* truth product and is labelled product.                                  *)
(***************************************************************************)
DiscountTemplate == "Discount code wasn't applied to my order. Can you fix this?"

ExcellentTemplate == "Excellent customer service and product quality!"

C18_NotReconciled ==
    \A k \in 1..Len(feedback_data) :
        LET r == feedback_data[k] IN
            /\ (DiscountTemplate \in Bodies(r.raw_text) =>
                    /\ GroundTruth(r) = {"billing"}
                    /\ category_array(r.raw_text) = <<"shipping">>)
            /\ (ExcellentTemplate \in Bodies(r.raw_text) =>
                    /\ GroundTruth(r) = {"product"}
                    /\ category_array(r.raw_text) = <<"product">>)

\* a returned row of the main file whose labels disagree
C18_Witness ==
    /\ pc = "returned"
    /\ impl = "main"
    /\ Len(feedback_data) >= 1
    /\ feedback_data[1].raw_text = DiscountTemplate
    /\ GroundTruth(feedback_data[1]) = {"billing"}
    /\ category_array(feedback_data[1].raw_text) # <<"billing">>

(***************************************************************************)
(* Specification: the labeler. One feedback row is inserted, its text a    *)
(* head (every keyword of every rule, words that hold a keyword, the       *)
(* spec's examples, the empty text) followed by up to MaxWords - 1 words,  *)
(* one keyword of each rule in lower case; the procedure runs on it.       *)
(***************************************************************************)
Heads ==
    {"", "hello", "I love this app", "URGENT: the app keeps crashing",
     "I was charged twice, please refund", "not great", "Billing", "shipped", "debugging",
     "LOVE", "GREAT", "EXCELLENT", "AMAZING", "HATE", "TERRIBLE", "AWFUL", "WORST",
     "PROBLEM", "ISSUE", "ERROR", "BROKEN", "CRASH", "GOOD", "NICE", "HELPFUL",
     "URGENT", "ASAP", "CRITICAL", "EMERGENCY", "IMMEDIATELY", "IMPORTANT", "SOON",
     "QUICKLY", "LOGIN", "BUG", "SLOW", "CHARGE", "BILL", "PAYMENT", "REFUND",
     "SUBSCRIPTION", "SHIP", "DELIVERY", "PACKAGE", "ORDER", "FEATURE", "PRODUCT",
     "IMPROVEMENT", "SUGGESTION"}

Tails ==
    {"great", "hate", "crash", "good", "asap", "soon", "issue", "login", "refund",
     "order", "feature"}

RECURSIVE Suffixes(_)
Suffixes(n) ==
    IF n <= 0 THEN {""}
    ELSE Suffixes(n - 1) \cup {s \o " " \o w : s \in Suffixes(n - 1), w \in Tails}

LabelTexts == {h \o s : h \in Heads, s \in Suffixes(MaxWords - 1)}

NextLabel ==
    \/ \E t \in LabelTexts : InsertFeedback(t)
    \/ ProcInsert
    \/ ProcUpdate

SpecLabel == InitIdle /\ [][NextLabel]_vars

(***************************************************************************)
(* The rule lists of the labeler as the specification gives them, in rule  *)
(* order, and the first-matching-rule policy.                              *)
(***************************************************************************)
SentimentRules ==
    <<[keywords |-> {"LOVE", "GREAT", "EXCELLENT", "AMAZING"}, output |-> 8],
      [keywords |-> {"HATE", "TERRIBLE", "AWFUL", "WORST"}, output |-> 0 - 8],
      [keywords |-> {"PROBLEM", "ISSUE", "ERROR", "BROKEN", "CRASH"}, output |-> 0 - 4],
      [keywords |-> {"GOOD", "NICE", "HELPFUL"}, output |-> 3]>>

UrgencyRules ==
    <<[keywords |-> {"URGENT", "ASAP", "CRITICAL", "EMERGENCY", "IMMEDIATELY"},
       output |-> "critical"],
      [keywords |-> {"IMPORTANT", "SOON", "QUICKLY"}, output |-> "high"],
      [keywords |-> {"ISSUE", "PROBLEM", "ERROR"}, output |-> "medium"]>>

CategoryRules ==
    <<[keywords |-> {"CRASH", "ERROR", "LOGIN", "BUG", "SLOW"}, output |-> "technical"],
      [keywords |-> {"CHARGE", "BILL", "PAYMENT", "REFUND", "SUBSCRIPTION"},
       output |-> "billing"],
      [keywords |-> {"SHIP", "DELIVERY", "PACKAGE", "ORDER"}, output |-> "shipping"],
      [keywords |-> {"FEATURE", "PRODUCT", "IMPROVEMENT", "SUGGESTION"},
       output |-> "product"]>>

\* the rules of a list that match an upper-cased text
Matching(rules, U) ==
    {r \in DOMAIN rules : \E k \in rules[r].keywords : Contains(U, k)}

FirstMatch(rules, U, default) ==
    IF Matching(rules, U) = {} THEN default
    ELSE rules[CHOOSE r \in Matching(rules, U) : \A q \in Matching(rules, U) : r <= q].output

\* the feedback rows an insights row was computed from
SourceRows(ins) ==
    {k \in 1..Len(customer_feedback) : customer_feedback[k].feedback_id = ins.feedback_id}

(***************************************************************************)
(* C10. For every text, each of the three sub-labels the CASE expressions  *)
(* compute (sentiment_score, urgency_level, category) is the output of the *)
(* first rule, in the specification's rule order, of which a keyword is    *)
(* contained in the upper-cased text, and the default (0.0, low, other)    *)
(* when no rule of that sub-label matches.                                 *)
(***************************************************************************)
C10_FirstMatchingRule ==
    \A n \in 1..Len(feedback_insights) :
        LET ins == feedback_insights[n] IN
            /\ SourceRows(ins) # {}
            /\ \A k \in SourceRows(ins) :
                    LET U == UPPER(customer_feedback[k].raw_text) IN
                        /\ ins.sentiment_score = FirstMatch(SentimentRules, U, 0)
                        /\ ins.urgency_level = FirstMatch(UrgencyRules, U, "low")
                        /\ ins.category = <<FirstMatch(CategoryRules, U, "other")>>

\* a labelled text that matches sentiment rules 1 and 3: rule 1 decides
C10_Witness ==
    /\ Len(feedback_insights) = 1
    /\ Len(customer_feedback) = 1
    /\ customer_feedback[1].raw_text = "I love this app crash"
    /\ Matching(SentimentRules, UPPER(customer_feedback[1].raw_text)) = {1, 3}
    /\ feedback_insights[1].sentiment_score = 8
    /\ feedback_insights[1].urgency_level = "low"
    /\ feedback_insights[1].category = <<"technical">>

(***************************************************************************)
(* The labels of an insights row, and the texts it was computed from.      *)
(***************************************************************************)
Sentiments == {0 - 8, 0 - 4, 0, 3, 8}

Urgencies == {"low", "medium", "high", "critical"}

Categories == {"technical", "billing", "shipping", "product", "other"}

SourceTexts(ins) == {customer_feedback[k].raw_text : k \in SourceRows(ins)}

\* the three sub-labels of an insights row are those the labeler gives the text t
SameLabel(ins, t) ==
    /\ ins.sentiment_score = sentiment_score(t)
    /\ ins.urgency_level = urgency_level(t)
    /\ ins.category = category_array(t)

(***************************************************************************)
(* C11. The labeler is total: the INSERT of the procedure yields an        *)
(* insights row for every unprocessed feedback row it reads, whatever the  *)
(* text; in every insights row sentiment_score is one of -0.8, -0.4, 0.0,  *)
(* 0.3, 0.8, urgency_level is one of low, medium, high, critical and       *)
(* category is one of technical, billing, shipping, product, other; the    *)
(* empty text gets the defaults 0.0, low, other.                           *)
(***************************************************************************)
\* the INSERT step leaves every feedback row it read with a row of insights
InsertLabelsAll ==
    proc_pc = "idle" /\ proc_pc' = "update" =>
        \A k \in 1..Len(customer_feedback) :
            Unprocessed(customer_feedback[k]) =>
                \E n \in (Len(feedback_insights) + 1)..Len(feedback_insights') :
                    feedback_insights'[n].feedback_id = customer_feedback[k].feedback_id

LabelsInRange ==
    \A n \in 1..Len(feedback_insights) :
            LET ins == feedback_insights[n] IN
                /\ ins.sentiment_score \in Sentiments
                /\ ins.urgency_level \in Urgencies
                /\ Len(ins.category) = 1
                /\ ins.category[1] \in Categories
                /\ ("" \in SourceTexts(ins) =>
                        /\ ins.sentiment_score = 0
                        /\ ins.urgency_level = "low"
                        /\ ins.category = <<"other">>)

C11_Total == [][InsertLabelsAll]_vars /\ []LabelsInRange

\* the empty text, labelled with the three defaults
C11_Witness ==
    /\ Len(customer_feedback) = 1
    /\ customer_feedback[1].raw_text = ""
    /\ Len(feedback_insights) = 1
    /\ feedback_insights[1].sentiment_score = 0
    /\ feedback_insights[1].urgency_level = "low"
    /\ feedback_insights[1].category = <<"other">>

(***************************************************************************)
(* C12. Every text that contains a keyword of category rule 1 (CRASH,      *)
(* ERROR, LOGIN, BUG, SLOW) and a keyword of category rule 2 (CHARGE,      *)
(* BILL, PAYMENT, REFUND, SUBSCRIPTION) is labelled technical, never       *)
(* billing, in whichever order the two keywords stand in the text.         *)
(***************************************************************************)
C12_TechnicalBeforeBilling ==
    \A n \in 1..Len(feedback_insights) :
        \A t \in SourceTexts(feedback_insights[n]) :
            (/\ \E k \in CategoryRules[1].keywords : Contains(UPPER(t), k)
             /\ \E k \in CategoryRules[2].keywords : Contains(UPPER(t), k))
                => /\ feedback_insights[n].category = <<"technical">>
                   /\ feedback_insights[n].category # <<"billing">>

\* a labelled text with the billing keyword before the technical one
C12_Witness ==
    /\ Len(customer_feedback) = 1
    /\ customer_feedback[1].raw_text = "REFUND crash"
    /\ Len(feedback_insights) = 1
    /\ feedback_insights[1].category = <<"technical">>

(***************************************************************************)
(* C13. The three sub-labels are evaluated independently: appending a word *)
(* that is a keyword of one sub-label's rules only (great: sentiment,      *)
(* asap: urgency, login: category) leaves the two other sub-labels of the  *)
(* text as they are; and `URGENT: the app keeps crashing` is labelled      *)
(* sentiment -0.4, urgency critical, category technical.                   *)
(***************************************************************************)
C13_Independent ==
    \A n \in 1..Len(feedback_insights) :
        LET ins == feedback_insights[n] IN
        \A t \in SourceTexts(ins) :
            /\ urgency_level(t \o " great") = ins.urgency_level
            /\ category_array(t \o " great") = ins.category
            /\ sentiment_score(t \o " asap") = ins.sentiment_score
            /\ category_array(t \o " asap") = ins.category
            /\ sentiment_score(t \o " login") = ins.sentiment_score
            /\ urgency_level(t \o " login") = ins.urgency_level
            /\ (t = "URGENT: the app keeps crashing" =>
                    /\ ins.sentiment_score = 0 - 4
                    /\ ins.urgency_level = "critical"
                    /\ ins.category = <<"technical">>)

\* the example text, labelled
C13_Witness ==
    /\ Len(customer_feedback) = 1
    /\ customer_feedback[1].raw_text = "URGENT: the app keeps crashing"
    /\ Len(feedback_insights) = 1
    /\ feedback_insights[1].sentiment_score = 0 - 4
    /\ feedback_insights[1].urgency_level = "critical"
    /\ feedback_insights[1].category = <<"technical">>

(***************************************************************************)
(* C14. `I was charged twice, please refund` is labelled category billing, *)
(* urgency low, sentiment 0.0: its upper-cased form contains CHARGE and    *)
(* REFUND, no keyword of the technical rule and no keyword of any          *)
(* sentiment or urgency rule.                                              *)
(***************************************************************************)
C14_ChargedTwice ==
    \A n \in 1..Len(feedback_insights) :
        LET ins == feedback_insights[n] IN
            "I was charged twice, please refund" \in SourceTexts(ins) =>
                LET U == UPPER("I was charged twice, please refund") IN
                    /\ ins.category = <<"billing">>
                    /\ ins.urgency_level = "low"
                    /\ ins.sentiment_score = 0
                    /\ Contains(U, "CHARGE")
                    /\ Contains(U, "REFUND")
                    /\ Matching(CategoryRules, U) = {2}
                    /\ Matching(SentimentRules, U) = {}
                    /\ Matching(UrgencyRules, U) = {}

\* the example text, labelled
C14_Witness ==
    /\ Len(customer_feedback) = 1
    /\ customer_feedback[1].raw_text = "I was charged twice, please refund"
    /\ Len(feedback_insights) = 1
    /\ feedback_insights[1].category = <<"billing">>
    /\ feedback_insights[1].urgency_level = "low"
    /\ feedback_insights[1].sentiment_score = 0

(***************************************************************************)
(* Specification: repeated evaluation. Up to MaxRows feedback rows are     *)
(* inserted, texts repeating, and the procedure runs any number of times,  *)
(* while a call of the generator draws from the random stream.             *)
(***************************************************************************)
RepeatTexts ==
    {"", "URGENT: the app keeps crashing", "I was charged twice, please refund",
     "not great"}

InitRepeat == \E im \in Impls : InitCall(im, 1)

NextRepeat ==
    \/ Generate(OneDraw)
    \/ \E t \in RepeatTexts : InsertFeedbackRow(t, MaxRows)
    \/ ProcInsert
    \/ ProcUpdate

SpecRepeat == InitRepeat /\ [][NextRepeat]_vars

LoadCount == 100

\* the days of pd.date_range('2025-08-20', '2025-09-20'): normal() and poisson()
\* draw one value per day each
ChartDraws == 64

\* the np.random.uniform calls of demo_semantic_search
SearchDraws == 6

\* STEP 1 and the first try of create_dataset_and_tables: client.create_dataset
CreateDataset(ok) ==
    /\ demo_pc = "step1"
    /\ IF ok
       THEN /\ dataset_exists' = TRUE
            /\ created' = created
            /\ printed' = printed \o <<"STEP 1", "Created dataset">>
            /\ demo_pc' = "create_tables"
       ELSE /\ dataset_exists' = dataset_exists
            /\ created' = "False"
            /\ printed' = printed \o <<"STEP 1", "Error creating dataset">>
            /\ demo_pc' = "step2"
    /\ UNCHANGED <<genVars, now, dbVars, rng, suspended>>

\* the second try of create_dataset_and_tables: the CREATE OR REPLACE TABLE script
CreateTables(ok) ==
    /\ demo_pc = "create_tables"
    /\ IF ok
       THEN /\ customer_feedback' = <<>>
            /\ feedback_insights' = <<>>
            /\ created' = "True"
            /\ printed' = printed \o <<"Created all required tables",
                                       "Database schema created successfully">>
       ELSE /\ UNCHANGED <<customer_feedback, feedback_insights>>
            /\ created' = "False"
            /\ printed' = printed \o <<"Error creating tables">>
    /\ demo_pc' = "step2"
    /\ UNCHANGED <<genVars, now, proc_pc, rng, suspended, dataset_exists>>

\* STEP 2: load_sample_data calls the generator
BeginLoad ==
    /\ demo_pc = "step2"
    /\ printed' = Append(printed, "STEP 2")
    /\ impl' = "main"
    /\ num_samples' = LoadCount
    /\ pc' = "for"
    /\ i' = 0
    /\ feedback_data' = <<>>
    /\ demo_pc' = "load"
    /\ UNCHANGED <<category, template, channel, text, now, dbVars, rng, suspended,
                   dataset_exists, created>>

\* variant: no except clause around the load
LoadTableUnhandled(ok) ==
    /\ demo_pc = "load"
    /\ pc = "returned"
    /\ ok => dataset_exists
    /\ IF ok
       THEN /\ customer_feedback' = feedback_data
            /\ printed' = Append(printed, "Loaded sample feedback records")
            /\ demo_pc' = "step3"
       ELSE /\ customer_feedback' = customer_feedback
            /\ printed' = printed
            /\ demo_pc' = "raised"
    /\ pc' = "idle"
    /\ UNCHANGED <<impl, num_samples, i, category, template, channel, text, feedback_data,
                   now, feedback_insights, proc_pc, rng, suspended, dataset_exists, created>>

\* the try of load_sample_data: client.load_table_from_dataframe with
\* WRITE_TRUNCATE, which needs the dataset
LoadTable(ok) ==
    /\ demo_pc = "load"
    /\ pc = "returned"
    /\ ok => dataset_exists
    /\ IF ok
       THEN /\ customer_feedback' = feedback_data
            /\ printed' = Append(printed, "Loaded sample feedback records")
       ELSE /\ customer_feedback' = customer_feedback
            /\ printed' = Append(printed, "Error loading sample data")
    /\ demo_pc' = "step3"
    /\ pc' = "idle"
    /\ UNCHANGED <<impl, num_samples, i, category, template, channel, text, feedback_data,
                   now, feedback_insights, proc_pc, rng, suspended, dataset_exists, created>>

\* STEP 3: create_ai_models prints
ConfigureModels ==
    /\ demo_pc = "step3"
    /\ printed' = Append(printed, "STEP 3")
    /\ demo_pc' = "step4"
    /\ UNCHANGED <<genVars, now, dbVars, rng, suspended, dataset_exists, created>>

\* STEP 4: process_feedback_with_ai builds the text of the procedure and prints
DefineProcessing ==
    /\ demo_pc = "step4"
    /\ printed' = Append(printed, "STEP 4")
    /\ demo_pc' = "step5"
    /\ UNCHANGED <<genVars, now, dbVars, rng, suspended, dataset_exists, created>>

\* STEP 5: generate_insights_dashboard prints its queries and draws the charts
Dashboard ==
    /\ demo_pc = "step5"
    /\ printed' = Append(printed, "STEP 5")
    /\ rng' = rng + ChartDraws
    /\ demo_pc' = "step6"
    /\ UNCHANGED <<genVars, now, dbVars, suspended, dataset_exists, created>>

\* STEP 6: generate_executive_summary prints
ExecutiveSummary ==
    /\ demo_pc = "step6"
    /\ printed' = Append(printed, "STEP 6")
    /\ demo_pc' = "step7"
    /\ UNCHANGED <<genVars, now, dbVars, rng, suspended, dataset_exists, created>>

\* STEP 7: demo_semantic_search and demo_predictive_analytics print
AdvancedFeatures ==
    /\ demo_pc = "step7"
    /\ printed' = Append(printed, "STEP 7")
    /\ rng' = rng + SearchDraws
    /\ demo_pc' = "summary"
    /\ UNCHANGED <<genVars, now, dbVars, suspended, dataset_exists, created>>

\* the final summary
FinalSummary ==
    /\ demo_pc = "summary"
    /\ printed' = Append(printed, "DEMO COMPLETE")
    /\ demo_pc' = "done"
    /\ UNCHANGED <<genVars, now, dbVars, rng, suspended, dataset_exists, created>>

\* run_complete_demo is called; the dataset may exist from an earlier run
InitDemo ==
    /\ suspended = NoCall
    /\ impl = "main"
    /\ num_samples = 0
    /\ pc = "idle"
    /\ i = 0
    /\ category = ""
    /\ template = ""
    /\ channel = ""
    /\ text = ""
    /\ feedback_data = <<>>
    /\ now = 0
    /\ customer_feedback = <<>>
    /\ feedback_insights = <<>>
    /\ proc_pc = "idle"
    /\ rng = 0
    /\ demo_pc = "step1"
    /\ dataset_exists \in BOOLEAN
    /\ created = "none"
    /\ printed = <<>>

(***************************************************************************)
(* Specification: the demo. Every draw of the generator is fixed; the      *)
(* program is sequential and runs on, so its next statement is taken.      *)
(***************************************************************************)
NextDemo ==
    \/ \E ok \in BOOLEAN : CreateDataset(ok)
    \/ \E ok \in BOOLEAN : CreateTables(ok)
    \/ BeginLoad
    \/ GenerateMain(OneDraw)
    \/ \E ok \in BOOLEAN : LoadTable(ok)
    \/ ConfigureModels
    \/ DefineProcessing
    \/ Dashboard
    \/ ExecutiveSummary
    \/ AdvancedFeatures
    \/ FinalSummary

SpecDemo == InitDemo /\ [][NextDemo]_vars /\ WF_vars(NextDemo)

Headers ==
    <<"STEP 1", "STEP 2", "STEP 3", "STEP 4", "STEP 5", "STEP 6", "STEP 7", "DEMO COMPLETE">>

IsHeader(line) == \E k \in DOMAIN Headers : Headers[k] = line

Printed(line) == \E k \in DOMAIN printed : printed[k] = line

\* the headers printed so far are the first ones of the list, in its order
HeadersInOrder ==
    LET hs == SelectSeq(printed, IsHeader)
    IN  Len(hs) <= Len(Headers) /\ hs = SubSeq(Headers, 1, Len(hs))

\* what create_dataset_and_tables did and returned after a failure
SetupFailures ==
    /\ (Printed("Error creating dataset") =>
            /\ created = "False"
            /\ ~ Printed("Created all required tables")
            /\ ~ Printed("Error creating tables")
            /\ ~ Printed("Database schema created successfully"))
    /\ (Printed("Error creating tables") =>
            /\ created = "False"
            /\ ~ Printed("Database schema created successfully"))
    /\ (created = "True" <=> Printed("Created all required tables"))
    /\ (demo_pc \notin {"step1", "create_tables"} => created \in {"True", "False"})

\* a failed load leaves the table as it was and load_sample_data returns
LoadFailureStep ==
    demo_pc = "load" /\ demo_pc' # "load" =>
        /\ demo_pc' = "step3"
        /\ Printed("Error loading sample data")'
                => customer_feedback' = customer_feedback
        /\ Printed("Loaded sample feedback records")'
                => Len(customer_feedback') = LoadCount

(***************************************************************************)
(* C20. Failures of the warehouse are handled by print-and-continue: when  *)
(* dataset creation or table creation fails create_dataset_and_tables      *)
(* returns False, without attempting table creation after a failed dataset *)
(* creation; when the load fails load_sample_data returns normally, the    *)
(* table left as it was; and whichever of them fail, run_complete_demo     *)
(* raises nothing, executes steps 2 to 7 in order and reaches the final    *)
(* summary.                                                                *)
(***************************************************************************)
C20_PrintAndContinue ==
    /\ [][LoadFailureStep]_vars
    /\ [](SetupFailures /\ HeadersInOrder /\ demo_pc # "raised")
    /\ [](demo_pc = "done" => SelectSeq(printed, IsHeader) = Headers)
    /\ <>(demo_pc = "done")

\* the demo done after table creation and the load have both failed
C20_Witness ==
    /\ demo_pc = "done"
    /\ created = "False"
    /\ Printed("Error creating tables")
    /\ Printed("Error loading sample data")
    /\ SelectSeq(printed, IsHeader) = Headers
    /\ customer_feedback = <<>>

(***************************************************************************)
(* Lower case, to build a second text of the same upper-cased form.        *)
(***************************************************************************)
LowerChar(c) ==
    IF \E p \in 1..Len(UpperLetters) : SubSeq(UpperLetters, p, p) = c
    THEN LET p == CHOOSE q \in 1..Len(UpperLetters) : SubSeq(UpperLetters, q, q) = c
         IN  SubSeq(LowerLetters, p, p)
    ELSE c

RECURSIVE LOWER(_)
LOWER(s) == IF Len(s) = 0 THEN "" ELSE LowerChar(SubSeq(s, 1, 1)) \o LOWER(Drop(s, 1))

(***************************************************************************)
(* C16. Matching is case-insensitive substring containment with no         *)
(* negation handling: the all-lower-case and the all-upper-case spelling   *)
(* of a text get the label of the text; a keyword of the first rule of a   *)
(* sub-label decides wherever it stands, inside a longer word (debugging,  *)
(* crashing) or after `not`; `shipped` counts as SHIP; and `not great` is  *)
(* labelled sentiment 0.8.                                                 *)
(***************************************************************************)
C16_CaseInsensitiveSubstring ==
    \A n \in 1..Len(feedback_insights) :
        LET ins == feedback_insights[n] IN
        \A t \in SourceTexts(ins) :
            LET U == UPPER(t) IN
                /\ SameLabel(ins, LOWER(t))
                /\ SameLabel(ins, U)
                /\ (Contains(U, "NOT GREAT") => ins.sentiment_score = 8)
                /\ (Contains(U, "DEBUGGING") \/ Contains(U, "CRASHING")
                        => ins.category = <<"technical">>)
                /\ (Contains(U, "SHIPPED") /\ Matching(CategoryRules, U) \cap {1, 2} = {}
                        => ins.category = <<"shipping">>)
                /\ (t = "not great" => ins.sentiment_score = 8)

\* `not great`, labelled positive
C16_Witness ==
    /\ Len(customer_feedback) = 1
    /\ customer_feedback[1].raw_text = "not great"
    /\ Len(feedback_insights) = 1
    /\ feedback_insights[1].sentiment_score = 8

(***************************************************************************)
(* Specification: markers. The category, template and marker draws range   *)
(* over every outcome, the random() draw over one value on each side of    *)
(* the threshold; the placeholder values and the other draws are fixed.    *)
(***************************************************************************)
DrawsMarked ==
    [OneDraw EXCEPT !.category = STRING, !.template = STRING, !.word = STRING,
                    !.u = {0, 99}]

InitMarked == \E im \in Impls : \E n \in 0..MaxMarkedSamples : InitCall(im, n)

NextMarked == Generate(DrawsMarked)

SpecMarked == InitMarked /\ [][NextMarked]_vars

\* the row starts with an urgency marker and ": "
Marked(r) == \E w \in FiveMarkers : StartsWith(r.raw_text, w \o ": ")

\* the urgency statement has put a prefix before the text: the labeler calls the
\* result critical
MarkedStepCritical ==
    pc = "urgency" /\ pc' = "append" /\ Subject' # Subject =>
        /\ urgency_level(Subject') = "critical"
        /\ \E w \in FiveMarkers : StartsWith(Subject', w \o ": ")

\* the insights row the procedure computes from an appended row with a marker is
\* critical
MarkedRowCritical ==
    pc = "append" /\ pc' = "for" /\ Marked(Last(feedback_data')) =>
        InsightOf(Last(feedback_data')).urgency_level = "critical"

\* the texts without a marker that the labeler calls critical all the same
CriticalUnmarked(t) ==
    \/ StartsWith(t, "I can't access my ") /\ Contains(t, "Need help ASAP.")
    \/ t = "I was charged twice for my subscription this month. Please refund immediately."
    \/ t = "Package arrived damaged. Need replacement urgently."

\* an appended row without a marker is critical exactly when its template holds a
\* keyword of the first urgency rule
UnmarkedRow ==
    pc = "append" /\ pc' = "for" /\ ~ Marked(Last(feedback_data')) =>
        (InsightOf(Last(feedback_data')).urgency_level = "critical"
            <=> CriticalUnmarked(Last(feedback_data').raw_text))

\* rows, once appended, stay as they are
RowsKept ==
    \A k \in 1..Len(feedback_data) :
        /\ k <= Len(feedback_data')
        /\ feedback_data'[k] = feedback_data[k]

(***************************************************************************)
(* C21. Every generated record whose text received an urgency marker       *)
(* prefix is labelled urgency critical, for each of the markers and each   *)
(* template of either file. The converse does not hold: the records of     *)
(* three templates (`Need help ASAP.`, `Please refund immediately.`,       *)
(* `Need replacement urgently.`) are labelled critical without a marker,   *)
(* and no other record without a marker is.                                *)
(***************************************************************************)
C21_MarkedIsCritical ==
    [][/\ MarkedStepCritical
       /\ RowCarriesText
       /\ MarkedRowCritical
       /\ UnmarkedRow
       /\ RowsKept]_vars

\* a returned row whose marker is in lower case, labelled critical
C21_Witness ==
    /\ pc = "returned"
    /\ impl = "main"
    /\ Len(feedback_data) = 1
    /\ feedback_data[1].raw_text = "emergency: Fast shipping! Arrived earlier than expected. Very pleased."
    /\ InsightOf(feedback_data[1]).urgency_level = "critical"

(***************************************************************************)
(* Specification: the procedure on a quiet table. Up to MaxRows feedback   *)
(* rows are inserted, but none while a run of the procedure is between its *)
(* INSERT and its UPDATE; the procedure runs any number of times.          *)
(***************************************************************************)
QuietInsert == proc_pc = "idle" /\ \E t \in RepeatTexts : InsertFeedbackRow(t, MaxRows)

NextQuiet ==
    \/ QuietInsert
    \/ ProcInsert
    \/ ProcUpdate

SpecQuiet == InitIdle /\ [][NextQuiet]_vars

\* the number of rows of a table with feedback_id x
CountId(rows, x) == Cardinality({k \in 1..Len(rows) : rows[k].feedback_id = x})

\* the feedback_ids of a table
Ids(rows) == {rows[k].feedback_id : k \in 1..Len(rows)}

AllProcessed(rows) == \A k \in 1..Len(rows) : rows[k].processed = TRUE

\* the rows a step has added at the end of feedback_insights
NewInsights == SubSeq(feedback_insights', Len(feedback_insights) + 1, Len(feedback_insights'))

\* the INSERT of a run keeps the insights there are and adds, per feedback_id, as many
\* rows as there are unprocessed feedback rows with it; it sets no flag
RunInserts ==
    proc_pc = "idle" /\ proc_pc' = "update" =>
        /\ Len(feedback_insights') >= Len(feedback_insights)
        /\ SubSeq(feedback_insights', 1, Len(feedback_insights)) = feedback_insights
        /\ Len(NewInsights) = Len(SelectSeq(customer_feedback, Unprocessed))
        /\ \A x \in Ids(customer_feedback) \cup Ids(NewInsights) :
                CountId(NewInsights, x) = CountId(SelectSeq(customer_feedback, Unprocessed), x)
        /\ customer_feedback' = customer_feedback

\* the UPDATE of a run leaves no row unprocessed, changes nothing but flags and
\* inserts nothing
RunUpdates ==
    proc_pc = "update" /\ proc_pc' = "idle" =>
        /\ AllProcessed(customer_feedback')
        /\ Len(customer_feedback') = Len(customer_feedback)
        /\ \A k \in 1..Len(customer_feedback) :
                customer_feedback'[k] = [customer_feedback[k] EXCEPT !.processed = TRUE]
        /\ feedback_insights' = feedback_insights

\* a step of a run that finds every row processed changes neither table
RepeatedRun ==
    AllProcessed(customer_feedback) /\ proc_pc' # proc_pc =>
        /\ feedback_insights' = feedback_insights
        /\ customer_feedback' = customer_feedback

\* between the INSERT and the UPDATE of a run the rows still unprocessed are the rows
\* the INSERT read: the last insights rows are theirs, in their order
PendingMatched ==
    proc_pc = "update" =>
        LET U == SelectSeq(customer_feedback, Unprocessed)
            n == Len(feedback_insights) - Len(U)
        IN  /\ n >= 0
            /\ \A k \in 1..Len(U) : feedback_insights[n + k].feedback_id = U[k].feedback_id

(***************************************************************************)
(* C22. A run of ProcessCustomerFeedback with no concurrent writer leaves  *)
(* no customer_feedback row with processed = FALSE and has inserted        *)
(* exactly one feedback_insights row for each row that was unprocessed     *)
(* when it started; an immediately repeated run inserts no row and changes *)
(* no flag.                                                                *)
(***************************************************************************)
C22_RunThenIdempotent ==
    /\ [][RunInserts /\ RunUpdates /\ RepeatedRun]_vars
    /\ []PendingMatched

\* a repeated run past its INSERT: two rows, both processed by earlier runs, and
\* still two insights rows
C22_Witness ==
    /\ proc_pc = "update"
    /\ Len(customer_feedback) = 2
    /\ AllProcessed(customer_feedback)
    /\ Len(feedback_insights) = 2
    /\ feedback_insights[1].feedback_id = customer_feedback[1].feedback_id
    /\ feedback_insights[2].feedback_id = customer_feedback[2].feedback_id

(***************************************************************************)
(* Specification: the tables under concurrent use. run_complete_demo       *)
(* creates the tables and loads the sample data, every request succeeding  *)
(* or failing, while clients of the warehouse insert up to MaxRows         *)
(* feedback rows into a table that holds fewer and the procedure runs any  *)
(* number of times, its INSERT and its UPDATE being separate steps. Every  *)
(* draw of the generator is fixed.                                         *)
(***************************************************************************)
RaceTexts == {"URGENT: the app keeps crashing"}

\* the tables are there once the dataset is
ClientInsert == dataset_exists /\ \E t \in RaceTexts : InsertFeedbackRow(t, MaxRows)

CallProcedure == dataset_exists /\ ProcInsert

NextRace ==
    \/ \E ok \in BOOLEAN : CreateDataset(ok)
    \/ \E ok \in BOOLEAN : CreateTables(ok)
    \/ BeginLoad
    \/ GenerateMain(OneDraw)
    \/ \E ok \in BOOLEAN : LoadTable(ok)
    \/ ClientInsert
    \/ CallProcedure
    \/ ProcUpdate

SpecRace == InitDemo /\ [][NextRace]_vars

\* every processed feedback row has exactly one insights row with its feedback_id
ProcessedHaveInsight ==
    \A k \in 1..Len(customer_feedback) :
        customer_feedback[k].processed = TRUE =>
            CountId(feedback_insights, customer_feedback[k].feedback_id) = 1

\* no feedback_id has more than one insights row
NoDuplicateInsights ==
    \A n \in 1..Len(feedback_insights) :
        \A m \in 1..Len(feedback_insights) :
            feedback_insights[n].feedback_id = feedback_insights[m].feedback_id => n = m

(***************************************************************************)
(* C23, as claimed. In every state reachable by any interleaving of        *)
(* load_sample_data, insertions of feedback rows and runs of               *)
(* ProcessCustomerFeedback, every customer_feedback row with processed =   *)
(* TRUE has exactly one feedback_insights row with its feedback_id, and no *)
(* feedback_id has more than one insights row.                             *)
(***************************************************************************)
C23_ProcessedHasOneInsight == ProcessedHaveInsight /\ NoDuplicateInsights

====
